---- MODULE Spec2Model ----
(***************************************************************************)
(* A model of nsudoku-solve: the Sudoku grid (src/src/sudoku.rs), its      *)
(* parser, and the three search strategies naive_dfs, dfs and sorted_dfs   *)
(* with the augmented grid they work on (src/src/sudoku/solve.rs).         *)
(*                                                                         *)
(* A behaviour parses one puzzle text and, when the parse yields a grid,   *)
(* runs the three strategies on it one after the other, each as an         *)
(* explicit call stack.  The iteration order of a HashSet of candidates is *)
(* not fixed by the code, so a candidate loop picks any remaining value.   *)
(***************************************************************************)
EXTENDS Integers, Sequences, FiniteSets, TLC

(***************************************************************************)
(* Grid geometry                                                           *)
(***************************************************************************)
\* Sudoku::order for a 16 character puzzle (the 4x4 size of from_str)
Order == 4

\* Sudoku::cell_size: the integer square root of the order
cell_size == CHOOSE k \in 1..Order : k * k = Order

\* the indices of an Array2 of shape (order, order)
Idx == (0..(Order - 1)) \X (0..(Order - 1))

\* position of an index in indexed_iter (row-major, logical order)
Rank(ix) == ix[1] * Order + ix[2]

\* the index at a position of the row-major scan
IxAt(k) == <<k \div Order, k % Order>>

\* rows(): one lane per row, elements in column order
rows == [r \in 0..(Order - 1) |-> [i \in 1..Order |-> <<r, i - 1>>]]

\* columns(): one lane per column, elements in row order
columns == [c \in 0..(Order - 1) |-> [i \in 1..Order |-> <<i - 1, c>>]]

\* exact_chunks((cell_size, cell_size)): chunks in row-major chunk order,
\* each chunk's elements in row-major order
exact_chunks ==
    [k \in 0..(Order - 1) |->
        [i \in 1..Order |->
            << (k \div cell_size) * cell_size + ((i - 1) \div cell_size),
               (k % cell_size) * cell_size + ((i - 1) % cell_size) >>]]

(***************************************************************************)
(* Sudoku (a grid of SudokuValue; 0 stands for SudokuValue(None))          *)
(***************************************************************************)
\* Sudoku::filled
filled(g) == \A ix \in Idx : g[ix] # 0

\* Sudoku::valid_set: in every subset, a value is none or differs from all
\* values after it
valid_set(g, set) ==
    \A k \in DOMAIN set :
        \A i \in DOMAIN set[k] :
            \/ g[set[k][i]] = 0
            \/ ~ \E j \in DOMAIN set[k] : j > i /\ g[set[k][j]] = g[set[k][i]]

\* Sudoku::valid
valid(g) == valid_set(g, rows) /\ valid_set(g, columns) /\ valid_set(g, exact_chunks)

\* Sudoku::solved
solved(g) == filled(g) /\ valid(g)

(***************************************************************************)
(* Parsing                                                                 *)
(***************************************************************************)
\* the characters a puzzle text of the model is made of; "e'" is a letter
\* that takes two bytes in UTF-8
Digits == <<"1", "2", "3", "4", "5", "6", "7", "8", "9">>

\* str::len of a one-character string: its UTF-8 byte length
Utf8Len(c) == IF c = "e'" THEN 2 ELSE 1

RECURSIVE StrLen(_)
\* str::len of a text: the sum of its characters' byte lengths
StrLen(s) == IF s = <<>> THEN 0 ELSE Utf8Len(Head(s)) + StrLen(Tail(s))

\* impl FromStr for SudokuValue: "panic" when the assertion on the length
\* fails, "ok" with 0 for ".", "ok" with the number for a NonZeroU8, "err"
\* otherwise (including "0")
SudokuValue_from_str(c) ==
    IF Utf8Len(c) # 1 THEN [kind |-> "panic", val |-> 0]
    ELSE IF c = "." THEN [kind |-> "ok", val |-> 0]
    ELSE IF \E d \in DOMAIN Digits : Digits[d] = c
         THEN [kind |-> "ok", val |-> CHOOSE d \in DOMAIN Digits : Digits[d] = c]
         ELSE [kind |-> "err", val |-> 0]

\* Sudoku::from_order_vec for an order whose assertions hold
from_order_vec(order, values) ==
    [ix \in (0..(order - 1)) \X (0..(order - 1)) |-> values[ix[1] * order + ix[2] + 1]]

\* the grid of from_order(Order): every cell empty
EmptyGrid == [ix \in Idx |-> 0]

\* impl FromStr for Sudoku: the assertion on the length, then the characters
\* parsed in order up to the first one that is not "ok"
Sudoku_from_str(s) ==
    IF ~ (StrLen(s) = 4 * 4 \/ StrLen(s) = 9 * 9)
    THEN [kind |-> "panic", grid |-> EmptyGrid]
    ELSE LET vals == [i \in DOMAIN s |-> SudokuValue_from_str(s[i])]
             bad  == {i \in DOMAIN s : vals[i].kind # "ok"}
         IN  IF bad # {}
             THEN LET first == CHOOSE i \in bad : \A j \in bad : i <= j
                  IN  IF vals[first].kind = "panic"
                      THEN [kind |-> "panic", grid |-> EmptyGrid]
                      ELSE [kind |-> "error", grid |-> EmptyGrid]
             ELSE [kind |-> "grid",
                   grid |-> from_order_vec(IF Len(s) = 16 THEN 4 ELSE 9,
                                           [i \in DOMAIN s |-> vals[i].val])]

(***************************************************************************)
(* AugmentedSudoku (a grid of AugmentedValue)                              *)
(***************************************************************************)
\* AugmentedValue::Fixed
Fixed(d) == [fixed |-> TRUE, val |-> d, possible |-> {}]

\* AugmentedValue::Possible
Possible(S) == [fixed |-> FALSE, val |-> 0, possible |-> S]

\* is_fixed with the two arms swapped
is_fixed_swapped(v) == ~ v.fixed

\* AugmentedValue::is_fixed
is_fixed(v) == v.fixed

\* AugmentedValue::remove: a Fixed value is left alone, a Possible set loses
\* the value
remove(v, value) == IF v.fixed THEN v ELSE Possible(v.possible \ {value})

\* impl From<Sudoku> for AugmentedSudoku
Augmented(g) ==
    [ix \in Idx |-> IF g[ix] # 0 THEN Fixed(g[ix]) ELSE Possible(1..Order)]

\* impl From<AugmentedSudoku> for Sudoku (with From<AugmentedValue>)
to_grid(data) == [ix \in Idx |-> IF data[ix].fixed THEN data[ix].val ELSE 0]

\* map_inplace(|val| val.remove(value)) over one row, column or chunk view
map_inplace_remove(data, view, value) ==
    [ix \in Idx |-> IF \E i \in DOMAIN view : view[i] = ix
                    THEN remove(data[ix], value)
                    ELSE data[ix]]

\* remove_value without the pass over the column
remove_value_no_column(data, ix, value) ==
    LET row   == ix[1]
        col   == ix[2]
        chunk == (row \div cell_size) * cell_size + (col \div cell_size)
    IN  map_inplace_remove(map_inplace_remove(data, rows[row], value),
                           exact_chunks[chunk], value)

\* AugmentedSudoku::remove_value: the row, then the column, then the chunk
\* numbered (row / cell_size) * cell_size + col / cell_size
remove_value(data, ix, value) ==
    LET row   == ix[1]
        col   == ix[2]
        chunk == (row \div cell_size) * cell_size + (col \div cell_size)
    IN  map_inplace_remove(
            map_inplace_remove(
                map_inplace_remove(data, rows[row], value),
                columns[col], value),
            exact_chunks[chunk], value)

RECURSIVE prune_from(_, _, _)
\* the loop of prune_possible over the collected fixed values, taken in
\* row-major order from position k on
prune_from(data, fixed_values, k) ==
    IF k > Order * Order - 1 THEN data
    ELSE IF fixed_values[IxAt(k)] # 0
         THEN prune_from(remove_value(data, IxAt(k), fixed_values[IxAt(k)]),
                         fixed_values, k + 1)
         ELSE prune_from(data, fixed_values, k + 1)

\* AugmentedSudoku::prune_possible
prune_possible(data) == prune_from(data, to_grid(data), 0)

\* AugmentedSudoku::fix_value_inplace
fix_value_inplace(data, ix, value) ==
    remove_value([data EXCEPT ![ix] = Fixed(value)], ix, value)

\* fix_value that fixes the cell and leaves the peers alone
fix_value_without_remove(data, ix, value) == [data EXCEPT ![ix] = Fixed(value)]

\* AugmentedSudoku::fix_value: the clone with the value fixed
fix_value(data, ix, value) == fix_value_inplace(data, ix, value)

(***************************************************************************)
(* Cell selection                                                          *)
(***************************************************************************)
\* the key of usize::MAX that sorted_dfs_impl gives a Fixed cell (any number
\* above every candidate-set size orders the same way)
UsizeMax == 2147483647

\* indexed_iter().find(pred): the first index in row-major order with pred,
\* as a set that is empty when there is none
find_first(S) == {ix \in S : \A other \in S : Rank(ix) <= Rank(other)}

\* the closure with an empty Possible set keyed like a Fixed cell
min_key_empty_as_fixed(v) ==
    IF v.fixed \/ v.possible = {} THEN UsizeMax ELSE Cardinality(v.possible)

\* the closure given to min_by_key in sorted_dfs_impl
min_key(v) == IF v.fixed THEN UsizeMax ELSE Cardinality(v.possible)

RECURSIVE min_by_key_from(_, _, _)
\* the fold of Iterator::min_by_key: the scan from position k on keeps the
\* element it holds unless the next one has a strictly smaller key
min_by_key_from(data, best, k) ==
    IF k > Order * Order - 1 THEN best
    ELSE IF min_key(data[IxAt(k)]) < min_key(data[best])
         THEN min_by_key_from(data, IxAt(k), k + 1)
         ELSE min_by_key_from(data, best, k + 1)

RECURSIVE min_by_key_last_from(_, _, _)
min_by_key_last_from(data, best, k) ==
    IF k > Order * Order - 1 THEN best
    ELSE IF min_key(data[IxAt(k)]) <= min_key(data[best])
         THEN min_by_key_last_from(data, IxAt(k), k + 1)
         ELSE min_by_key_last_from(data, best, k + 1)

\* min_by_key keeping the last of the elements of least key
min_by_key_last(data) == min_by_key_last_from(data, IxAt(0), 1)

\* indexed_iter().min_by_key(key) on a grid that has cells
min_by_key(data) == min_by_key_from(data, IxAt(0), 1)

(***************************************************************************)
(* Puzzle texts the model is run on                                        *)
(***************************************************************************)
\* the base puzzle with at most this many cells blanked, anywhere
MaxBlank == 2

\* the base puzzle with its first cells blanked, at most this many, and one
\* character replaced
MaxPrefix == 6

\* a solved 4x4 puzzle
Base == << "1", "2", "3", "4",
           "3", "4", "1", "2",
           "2", "1", "4", "3",
           "4", "3", "2", "1" >>

\* the characters one cell of the base puzzle may be replaced by
Alphabet == {".", "0", "1", "2", "3", "4", "5", "x"}

\* the base puzzle with the positions of S blanked, and then position p
\* (when it is not 0) holding the character c
Edited(S, p, c) ==
    [i \in DOMAIN Base |-> IF i = p THEN c ELSE IF i \in S THEN "." ELSE Base[i]]

\* the all-empty 4x4 puzzle
AllEmpty == [i \in 1..16 |-> "."]

\* valid givens, no empty candidate set after propagation, no completion
TwoForcedFours == << "1", "2", ".", ".",
                     ".", ".", ".", ".",
                     ".", ".", "3", ".",
                     ".", ".", ".", "." >>

\* a sparse puzzle with one given per row
Sparse == << "1", ".", ".", ".",
             ".", ".", "2", ".",
             ".", "3", ".", ".",
             ".", ".", ".", "4" >>

\* a repeated digit in the first row, the rest empty
RowRepeat == << "1", ".", ".", "1",
                ".", ".", ".", ".",
                ".", ".", "2", "3",
                ".", ".", "4", "." >>

\* valid givens without completion on which sorted_dfs has to branch
BranchesFail == << "3", ".", ".", "1",
                   "1", ".", "3", ".",
                   ".", ".", ".", "3",
                   ".", "1", ".", "." >>

\* a puzzle with completions on which a branch of sorted_dfs can fail
BranchRetry == << ".", ".", ".", "3",
                  ".", ".", ".", "4",
                  "2", "4", "3", ".",
                  ".", ".", "4", "." >>

\* fifteen characters of sixteen bytes: one letter takes two bytes
TwoByteLetter == [i \in 1..15 |-> IF i = 3 THEN "e'" ELSE "."]

\* a two-byte letter after a character that does not parse
TwoByteAfterBad == [i \in 1..15 |-> IF i = 2 THEN "x" ELSE IF i = 3 THEN "e'" ELSE "."]

Texts ==
    {Edited(S, 0, ".") : S \in {T \in SUBSET (1..16) : Cardinality(T) <= MaxBlank}}
    \cup {Edited(1..k, p, c) : k \in 0..MaxPrefix, p \in 1..16, c \in Alphabet}
    \cup {AllEmpty, TwoForcedFours, Sparse, RowRepeat, BranchesFail, BranchRetry,
          TwoByteLetter, TwoByteAfterBad,
          SubSeq(Base, 1, 15), Append(Base, "."), <<>>}

(***************************************************************************)
(* State                                                                   *)
(***************************************************************************)
VARIABLES
    text,     \* the puzzle text given to the program
    pc,       \* where the run is: "parse", "panic", "parse_error", "parsed",
              \* then "naive", "naive_ret", "dfs", "dfs_ret", "sorted", "sorted_ret"
    sudoku,   \* the parsed grid, handed to each strategy
    stack,    \* the frames of the running strategy's recursion, outermost first
    heap,     \* sorted_dfs: the augmented grids alive, the one owned by
              \* sorted_dfs first, then the clone of each branch being explored
    ret,      \* the value a frame has just returned to its caller
    result,   \* the SudokuResult of the strategy that has returned
    verdict,  \* per strategy, "Ok" or "Err" once it has returned
    tries     \* candidates placed or fixed by the running strategy so far

vars == <<text, pc, sudoku, stack, heap, ret, result, verdict, tries>>

NoRet == [kind |-> "none", grid |-> EmptyGrid]

top == stack[Len(stack)]

Pop == SubSeq(stack, 1, Len(stack) - 1)

SetTop(frame) == [stack EXCEPT ![Len(stack)] = frame]

Init ==
    /\ text \in Texts
    /\ pc = "parse"
    /\ sudoku = EmptyGrid
    /\ stack = <<>>
    /\ heap = <<>>
    /\ ret = NoRet
    /\ result = NoRet
    /\ verdict = [naive |-> "none", dfs |-> "none", sorted |-> "none"]
    /\ tries = 0

(***************************************************************************)
(* main: parse the text                                                    *)
(***************************************************************************)
Parse ==
    /\ pc = "parse"
    /\ LET parsed == Sudoku_from_str(text)
       IN  /\ pc' = CASE parsed.kind = "panic" -> "panic"
                      [] parsed.kind = "error" -> "parse_error"
                      [] OTHER -> "parsed"
           /\ sudoku' = parsed.grid
    /\ UNCHANGED <<text, stack, heap, ret, result, verdict, tries>>

(***************************************************************************)
(* naive_dfs                                                               *)
(***************************************************************************)
\* main calls naive_dfs(puzzle)
naive_dfs ==
    /\ pc = "parsed"
    /\ pc' = "naive"
    /\ stack' = <<[sudoku |-> sudoku, ix |-> <<0, 0>>, value |-> 0, at |-> "enter"]>>
    /\ tries' = 0
    /\ UNCHANGED <<text, sudoku, heap, ret, result, verdict>>

\* lines 21-29: look for the first empty cell; with none, return by solved()
NaiveEnter ==
    /\ pc = "naive" /\ stack # <<>> /\ top.at = "enter"
    /\ LET found == find_first({ix \in Idx : top.sudoku[ix] = 0})
       IN  IF found = {}
           THEN /\ ret' = [kind |-> IF solved(top.sudoku) THEN "Ok" ELSE "Err",
                           grid |-> top.sudoku]
                /\ stack' = Pop
           ELSE /\ stack' = SetTop([top EXCEPT !.ix = CHOOSE ix \in found : TRUE,
                                               !.value = 1, !.at = "loop"])
                /\ ret' = ret
    /\ UNCHANGED <<text, pc, sudoku, heap, result, verdict, tries>>

\* lines 31-36: place the next value; recurse when the grid is valid
NaiveTry ==
    /\ pc = "naive" /\ stack # <<>> /\ top.at = "loop" /\ top.value <= Order
    /\ LET placed == [top.sudoku EXCEPT ![top.ix] = top.value]
       IN  IF valid(placed)
           THEN stack' = Append(SetTop([top EXCEPT !.sudoku = placed, !.at = "call"]),
                                [sudoku |-> placed, ix |-> <<0, 0>>, value |-> 0,
                                 at |-> "enter"])
           ELSE stack' = SetTop([top EXCEPT !.sudoku = placed, !.value = @ + 1])
    /\ tries' = tries + 1
    /\ UNCHANGED <<text, pc, sudoku, heap, ret, result, verdict>>

\* line 35: propagate_ok! on the value the recursive call returned
NaiveResume ==
    /\ pc = "naive" /\ stack # <<>> /\ top.at = "call" /\ ret.kind # "none"
    /\ IF ret.kind = "Ok"
       THEN /\ stack' = Pop
            /\ ret' = ret
       ELSE /\ stack' = SetTop([top EXCEPT !.sudoku = ret.grid, !.value = @ + 1,
                                           !.at = "loop"])
            /\ ret' = NoRet
    /\ UNCHANGED <<text, pc, sudoku, heap, result, verdict, tries>>

\* lines 39-41: every value tried; clear the cell and return Err
NaiveExhaust ==
    /\ pc = "naive" /\ stack # <<>> /\ top.at = "loop" /\ top.value > Order
    /\ ret' = [kind |-> "Err", grid |-> [top.sudoku EXCEPT ![top.ix] = 0]]
    /\ stack' = Pop
    /\ UNCHANGED <<text, pc, sudoku, heap, result, verdict, tries>>

\* the outermost naive_dfs returns to main
NaiveReturn ==
    /\ pc = "naive" /\ stack = <<>>
    /\ pc' = "naive_ret"
    /\ result' = ret
    /\ ret' = NoRet
    /\ verdict' = [verdict EXCEPT !.naive = ret.kind]
    /\ UNCHANGED <<text, sudoku, stack, heap, tries>>

(***************************************************************************)
(* dfs                                                                     *)
(***************************************************************************)
\* lines 44-50: convert, prune from the givens, call dfs_impl
dfs ==
    /\ pc = "naive_ret"
    /\ pc' = "dfs"
    /\ stack' = <<[data |-> prune_possible(Augmented(sudoku)), ix |-> <<0, 0>>,
                   possible |-> {}, at |-> "enter"]>>
    /\ result' = NoRet
    /\ tries' = 0
    /\ UNCHANGED <<text, sudoku, heap, ret, verdict>>

\* lines 57-72: the first cell that is not fixed; with none, Break
DfsEnter ==
    /\ pc = "dfs" /\ stack # <<>> /\ top.at = "enter"
    /\ LET found == find_first({ix \in Idx : ~ is_fixed(top.data[ix])})
       IN  IF found = {}
           THEN /\ ret' = [kind |-> "Break", grid |-> to_grid(top.data)]
                /\ stack' = Pop
           ELSE LET ix == CHOOSE i \in found : TRUE
                IN  /\ stack' = SetTop([top EXCEPT !.ix = ix,
                                                   !.possible = top.data[ix].possible,
                                                   !.at = "loop"])
                    /\ ret' = ret
    /\ UNCHANGED <<text, pc, sudoku, heap, result, verdict, tries>>

\* lines 74-75: the loop takes some value not yet taken from the set and
\* calls dfs_impl on the clone that has it fixed
DfsTry ==
    /\ pc = "dfs" /\ stack # <<>> /\ top.at = "loop"
    /\ \E value \in top.possible :
          stack' = Append(SetTop([top EXCEPT !.possible = @ \ {value}, !.at = "call"]),
                          [data |-> fix_value(top.data, top.ix, value), ix |-> <<0, 0>>,
                           possible |-> {}, at |-> "enter"])
    /\ tries' = tries + 1
    /\ UNCHANGED <<text, pc, sudoku, heap, ret, result, verdict>>

\* the loop of dfs_impl returning whatever the first recursive call returned
DfsResume_first_only ==
    /\ pc = "dfs" /\ stack # <<>> /\ top.at = "call" /\ ret.kind # "none"
    /\ stack' = Pop
    /\ ret' = ret
    /\ UNCHANGED <<text, pc, sudoku, heap, result, verdict, tries>>

\* line 75: the ? on the value the recursive call returned
DfsResume ==
    /\ pc = "dfs" /\ stack # <<>> /\ top.at = "call" /\ ret.kind # "none"
    /\ IF ret.kind = "Break"
       THEN /\ stack' = Pop
            /\ ret' = ret
       ELSE /\ stack' = SetTop([top EXCEPT !.at = "loop"])
            /\ ret' = NoRet
    /\ UNCHANGED <<text, pc, sudoku, heap, result, verdict, tries>>

\* line 78: the set is used up
DfsExhaust ==
    /\ pc = "dfs" /\ stack # <<>> /\ top.at = "loop" /\ top.possible = {}
    /\ ret' = [kind |-> "Continue", grid |-> EmptyGrid]
    /\ stack' = Pop
    /\ UNCHANGED <<text, pc, sudoku, heap, result, verdict, tries>>

\* lines 50-53: Continue becomes Err(orig), Break(solved) becomes Ok(solved)
DfsReturn ==
    /\ pc = "dfs" /\ stack = <<>>
    /\ pc' = "dfs_ret"
    /\ result' = IF ret.kind = "Break" THEN [kind |-> "Ok", grid |-> ret.grid]
                                       ELSE [kind |-> "Err", grid |-> sudoku]
    /\ ret' = NoRet
    /\ verdict' = [verdict EXCEPT !.dfs = IF ret.kind = "Break" THEN "Ok" ELSE "Err"]
    /\ UNCHANGED <<text, sudoku, stack, heap, tries>>

(***************************************************************************)
(* sorted_dfs                                                              *)
(***************************************************************************)
\* lines 81-86: convert, prune from the givens, call sorted_dfs_impl on it
sorted_dfs ==
    /\ pc = "dfs_ret"
    /\ pc' = "sorted"
    /\ heap' = <<prune_possible(Augmented(sudoku))>>
    /\ stack' = <<[ref |-> 1, ix |-> <<0, 0>>, possible |-> {}, at |-> "enter"]>>
    /\ result' = NoRet
    /\ tries' = 0
    /\ UNCHANGED <<text, sudoku, ret, verdict>>

\* lines 93-107: the cell of least key; Break when it is Fixed
SortedEnter ==
    /\ pc = "sorted" /\ stack # <<>> /\ top.at = "enter"
    /\ LET data == heap[top.ref]
           ix   == min_by_key(data)
       IN  IF is_fixed(data[ix])
           THEN /\ ret' = [kind |-> "Break", grid |-> to_grid(data)]
                /\ stack' = Pop
           ELSE /\ stack' = SetTop([top EXCEPT
                                      !.ix = ix,
                                      !.possible = data[ix].possible,
                                      !.at = IF Cardinality(data[ix].possible) = 1
                                             THEN "single" ELSE "loop"])
                /\ ret' = ret
    /\ UNCHANGED <<text, pc, sudoku, heap, result, verdict, tries>>

\* lines 110-114: the only possibility is fixed in place and the call
\* recurses on the same grid
SortedFixInplace ==
    /\ pc = "sorted" /\ stack # <<>> /\ top.at = "single"
    /\ LET value == CHOOSE v \in top.possible : TRUE
       IN  heap' = [heap EXCEPT ![top.ref] = fix_value_inplace(@, top.ix, value)]
    /\ stack' = Append(SetTop([top EXCEPT !.at = "tail"]),
                       [ref |-> top.ref, ix |-> <<0, 0>>, possible |-> {},
                        at |-> "enter"])
    /\ tries' = tries + 1
    /\ UNCHANGED <<text, pc, sudoku, ret, result, verdict>>

\* the loop of sorted_dfs_impl fixing the value in the grid it was given and
\* recursing on a clone taken afterwards
SortedTry_fix_parent ==
    /\ pc = "sorted" /\ stack # <<>> /\ top.at = "loop"
    /\ \E value \in top.possible :
          /\ heap' = Append([heap EXCEPT ![top.ref] = fix_value_inplace(@, top.ix, value)],
                            fix_value_inplace(heap[top.ref], top.ix, value))
          /\ stack' = Append(SetTop([top EXCEPT !.possible = @ \ {value}, !.at = "call"]),
                             [ref |-> Len(heap) + 1, ix |-> <<0, 0>>, possible |-> {},
                              at |-> "enter"])
    /\ tries' = tries + 1
    /\ UNCHANGED <<text, pc, sudoku, ret, result, verdict>>

\* lines 117-118: the loop takes some value not yet taken from the set and
\* recurses on a clone that has it fixed
SortedTry ==
    /\ pc = "sorted" /\ stack # <<>> /\ top.at = "loop"
    /\ \E value \in top.possible :
          /\ heap' = Append(heap, fix_value(heap[top.ref], top.ix, value))
          /\ stack' = Append(SetTop([top EXCEPT !.possible = @ \ {value}, !.at = "call"]),
                             [ref |-> Len(heap) + 1, ix |-> <<0, 0>>, possible |-> {},
                              at |-> "enter"])
    /\ tries' = tries + 1
    /\ UNCHANGED <<text, pc, sudoku, ret, result, verdict>>

\* line 113 and line 118: the value the recursive call returned; the call in
\* tail position returns it, the loop drops its clone and applies ?
SortedResume ==
    /\ pc = "sorted" /\ stack # <<>> /\ top.at \in {"tail", "call"} /\ ret.kind # "none"
    /\ IF top.at = "tail"
       THEN /\ stack' = Pop
            /\ ret' = ret
            /\ heap' = heap
       ELSE /\ heap' = SubSeq(heap, 1, Len(heap) - 1)
            /\ IF ret.kind = "Break"
               THEN /\ stack' = Pop
                    /\ ret' = ret
               ELSE /\ stack' = SetTop([top EXCEPT !.at = "loop"])
                    /\ ret' = NoRet
    /\ UNCHANGED <<text, pc, sudoku, result, verdict, tries>>

\* line 121: the set is used up
SortedExhaust ==
    /\ pc = "sorted" /\ stack # <<>> /\ top.at = "loop" /\ top.possible = {}
    /\ ret' = [kind |-> "Continue", grid |-> EmptyGrid]
    /\ stack' = Pop
    /\ UNCHANGED <<text, pc, sudoku, heap, result, verdict, tries>>

\* lines 86-89: Continue becomes Err of the grid sorted_dfs owns, Break(solved)
\* becomes Ok(solved)
SortedReturn ==
    /\ pc = "sorted" /\ stack = <<>>
    /\ pc' = "sorted_ret"
    /\ result' = IF ret.kind = "Break" THEN [kind |-> "Ok", grid |-> ret.grid]
                                       ELSE [kind |-> "Err", grid |-> to_grid(heap[1])]
    /\ ret' = NoRet
    /\ heap' = <<>>
    /\ verdict' = [verdict EXCEPT !.sorted = IF ret.kind = "Break" THEN "Ok" ELSE "Err"]
    /\ UNCHANGED <<text, sudoku, stack, tries>>

(***************************************************************************)
(* Specification                                                           *)
(***************************************************************************)
Next ==
    \/ Parse
    \/ naive_dfs \/ NaiveEnter \/ NaiveTry \/ NaiveResume \/ NaiveExhaust \/ NaiveReturn
    \/ dfs \/ DfsEnter \/ DfsTry \/ DfsResume \/ DfsExhaust \/ DfsReturn
    \/ sorted_dfs \/ SortedEnter \/ SortedFixInplace \/ SortedTry \/ SortedResume
    \/ SortedExhaust \/ SortedReturn

Spec == Init /\ [][Next]_vars

(***************************************************************************)
(* Properties                                                              *)
(***************************************************************************)
Strategies == {"naive", "dfs", "sorted"}

\* the strategy has returned to main and its result is at hand
Returned == pc \in {"naive_ret", "dfs_ret", "sorted_ret"}

\* some row of the grid holds the same digit in two given cells
RowRepeated(g) == \E r \in 0..(Order - 1) : \E c1, c2 \in 0..(Order - 1) :
                     c1 # c2 /\ g[<<r, c1>>] # 0 /\ g[<<r, c1>>] = g[<<r, c2>>]

\* C1: on every input grid the three strategies return the same verdict,
\* all Ok or all Err
C1_SameVerdict ==
    \A s, t \in Strategies :
        (verdict[s] # "none" /\ verdict[t] # "none") => verdict[s] = verdict[t]

\* C2: a grid returned in Ok by any strategy satisfies solved()
C2_OkIsSolved ==
    (Returned /\ result.kind = "Ok") => solved(result.grid)

\* C3: on an input grid with the same digit twice in one row among its
\* givens, every strategy returns Err
C3_RowRepeatIsErr ==
    RowRepeated(sudoku) => \A s \in Strategies : verdict[s] \in {"none", "Err"}

\* every cell of the grid is empty or a digit of 1..order
InRange(g) == \A ix \in Idx : g[ix] \in 0..Order

\* the rows a solved grid with digits 1..order can have
Perms == {p \in [1..Order -> 1..Order] : \A i, j \in 1..Order : p[i] = p[j] => i = j}

\* all solved grids with digits 1..order: grids of such rows that satisfy solved()
SolvedGrids ==
    LET Bands == {b \in Perms \X Perms : \A i \in 1..Order : b[1][i] # b[2][i]}
        Grid(t, u) == [ix \in Idx |-> IF ix[1] < 2 THEN t[ix[1] + 1][ix[2] + 1]
                                                   ELSE u[ix[1] - 1][ix[2] + 1]]
    IN  {h \in {Grid(b[1], b[2]) : b \in Bands \X Bands} : solved(h)}

\* the empty cells of a grid
Empties(g) == {ix \in Idx : g[ix] = 0}

\* some assignment of digits 1..order to the empty cells of g gives a grid
\* that satisfies solved()
HasCompletion(g) ==
    IF InRange(g)
    THEN \E h \in SolvedGrids : \A ix \in Idx : g[ix] # 0 => h[ix] = g[ix]
    ELSE \E f \in [Empties(g) -> 1..Order] :
            solved([ix \in Idx |-> IF g[ix] = 0 THEN f[ix] ELSE g[ix]])

\* C4: the search is exhaustive: on an input grid that has a completion
\* satisfying solved(), every strategy returns Ok; Err is returned only when
\* no completion exists
C4_Exhaustive ==
    Returned =>
        \A s \in Strategies :
            /\ (verdict[s] # "none" /\ HasCompletion(sudoku)) => verdict[s] = "Ok"
            /\ verdict[s] = "Err" => ~ HasCompletion(sudoku)

\* the all-empty 4x4 grid has been solved by all three strategies
C4_Witness ==
    /\ pc = "sorted_ret" /\ sudoku = EmptyGrid
    /\ \A s \in Strategies : verdict[s] = "Ok"

\* C5: on an input grid that satisfies solved(), every strategy returns Ok
\* with a grid equal to the input, and places or tries no candidate
C5_SolvedInput ==
    solved(sudoku) =>
        /\ tries = 0
        /\ Returned => (result.kind = "Ok" /\ result.grid = sudoku)

\* the last strategy has returned on a solved input
C5_Witness == pc = "sorted_ret" /\ solved(sudoku) /\ result.kind = "Ok"

\* the specification with the progress a single-threaded run makes: a step
\* that can be taken is taken
FairSpec == Spec /\ WF_vars(Next)

\* after the initial propagation from the givens some empty cell has no
\* candidate left
Contradiction(g) ==
    LET data == prune_possible(Augmented(g))
    IN  \E ix \in Idx : ~ data[ix].fixed /\ data[ix].possible = {}

\* the number of recursive descents below the outermost call of the impl
Depth == Len(stack) - 1

\* C6: when the initial propagation leaves an empty cell without candidates,
\* dfs and sorted_dfs both terminate with Err; and the recursion of either
\* never goes deeper than the number of empty cells of the input
C6_ContradictionIsErr ==
    /\ [](pc \in {"dfs", "sorted"} => Depth <= Cardinality(Empties(sudoku)))
    /\ [](Returned /\ Contradiction(sudoku) =>
             verdict.dfs \in {"none", "Err"} /\ verdict.sorted \in {"none", "Err"})
    /\ ((pc = "parsed" /\ Contradiction(sudoku))
          ~> (pc = "sorted_ret" /\ verdict.dfs = "Err" /\ verdict.sorted = "Err"))

\* dfs has returned Err on an input with a contradiction, after it tried
\* candidates of the cells before the one without candidates
C6_Witness ==
    pc = "dfs_ret" /\ Contradiction(sudoku) /\ verdict.dfs = "Err" /\ tries > 0

\* C7: parse gives a parse error, and neither a grid nor an abort, when the
\* text is not 16 or 81 long or holds a character other than "." and the
\* digits 1..order; so the non-empty cells of a parsed grid lie in 1..order
C7_StrictParse ==
    LET order   == IF Len(text) = 9 * 9 THEN 9 ELSE 4
        good(c) == c = "." \/ \E d \in 1..order : Digits[d] = c
        wrong   == \/ Len(text) \notin {4 * 4, 9 * 9}
                   \/ \E i \in DOMAIN text : ~ good(text[i])
    IN  pc # "parse" =>
            /\ wrong => pc = "parse_error"
            /\ pc \notin {"panic", "parse_error"} => InRange(sudoku)

\* two different cells in one row, one column or one box
Peers(a, b) ==
    /\ a # b
    /\ \/ a[1] = b[1]
       \/ a[2] = b[2]
       \/ /\ a[1] \div cell_size = b[1] \div cell_size
          /\ a[2] \div cell_size = b[2] \div cell_size

\* no two peers are Fixed to the same digit
NoPeerConflict(data) ==
    \A a, b \in Idx :
        (Peers(a, b) /\ data[a].fixed /\ data[b].fixed) => data[a].val # data[b].val

\* the augmented grids alive in the running strategy
LiveGrids ==
    IF pc = "dfs" THEN {stack[i].data : i \in DOMAIN stack}
    ELSE IF pc = "sorted" THEN {heap[i] : i \in DOMAIN heap}
    ELSE {}

\* C8: on a valid input grid, every augmented grid of dfs and sorted_dfs
\* converts to a grid that satisfies valid(): no two peers are Fixed to the
\* same digit
C8_GridsStayValid ==
    (pc \in {"dfs", "sorted"} /\ valid(sudoku)) =>
        \A data \in LiveGrids : valid(to_grid(data)) /\ NoPeerConflict(data)

\* sorted_dfs works on a clone of a clone, each with one more cell fixed
C8_Witness ==
    /\ pc = "sorted" /\ valid(sudoku) /\ Len(heap) >= 3
    /\ Cardinality(Empties(to_grid(heap[3]))) + 2 <= Cardinality(Empties(sudoku))

\* C9: the cell sorted_dfs_impl selects is a Possible cell of least
\* candidate-set size, the first such cell in row-major order; it finishes
\* on a Fixed cell only when no cell is Possible
C9_SelectsFirstMinimum ==
    pc = "sorted" =>
        /\ \A i \in DOMAIN stack :
              stack[i].at \in {"single", "loop", "call"} =>
                  LET data == heap[stack[i].ref]
                      ix   == stack[i].ix
                  IN  /\ ~ data[ix].fixed
                      /\ \A other \in Idx :
                            ~ data[other].fixed =>
                                \/ Cardinality(data[ix].possible)
                                      < Cardinality(data[other].possible)
                                \/ /\ Cardinality(data[ix].possible)
                                         = Cardinality(data[other].possible)
                                   /\ Rank(ix) <= Rank(other)
        /\ ret.kind = "Break" => filled(ret.grid)

\* a selection among several Possible cells of the same least size, not at
\* the first cell of the grid
C9_Witness ==
    /\ pc = "sorted" /\ stack # <<>> /\ top.at = "loop" /\ top.ix # <<0, 0>>
    /\ \E other \in Idx :
          /\ other # top.ix /\ ~ heap[top.ref][other].fixed
          /\ heap[top.ref][other].possible # {}
          /\ Cardinality(heap[top.ref][other].possible)
                = Cardinality(heap[top.ref][top.ix].possible)
    /\ \E other \in Idx :
          /\ ~ heap[top.ref][other].fixed
          /\ Cardinality(heap[top.ref][other].possible)
                > Cardinality(heap[top.ref][top.ix].possible)

\* new is old with the cell at ix Fixed to digit and digit taken out of the
\* Possible sets of the peers of ix, and nothing else changed
FixEffect(old, new, ix, digit) ==
    \A c \in Idx :
        IF c = ix THEN new[c].fixed /\ new[c].val = digit
        ELSE IF old[c].fixed THEN new[c] = old[c]
        ELSE IF Peers(c, ix)
             THEN ~ new[c].fixed /\ new[c].possible = old[c].possible \ {digit}
             ELSE new[c] = old[c]

\* C10: fix_value leaves the receiver as it was and returns a grid that
\* differs only in the fixed cell and in the digit removed from the Possible
\* cells of its row, column and box
C10_FixValueFrame ==
    [][ /\ (pc = "dfs" /\ Len(stack') = Len(stack) + 1) =>
              /\ stack'[Len(stack)].data = top.data
              /\ \E digit \in top.possible :
                    /\ stack'[Len(stack)].possible = top.possible \ {digit}
                    /\ FixEffect(top.data, stack'[Len(stack')].data, top.ix, digit)
        /\ (pc = "sorted" /\ Len(heap') = Len(heap) + 1) =>
              /\ SubSeq(heap', 1, Len(heap)) = heap
              /\ \E digit \in top.possible :
                    /\ stack'[Len(stack)].possible = top.possible \ {digit}
                    /\ FixEffect(heap[top.ref], heap'[Len(heap')], top.ix, digit)
      ]_vars

\* dfs_impl runs on a clone in which fix_value removed the digit from a cell
\* of the row, a cell of the column and a cell of the box of the fixed cell
C10_Witness ==
    /\ pc = "dfs" /\ Len(stack) >= 2
    /\ LET old == stack[Len(stack) - 1].data
           new == top.data
           ix  == stack[Len(stack) - 1].ix
       IN  /\ \E c \in Idx : c[1] = ix[1] /\ c[2] \div cell_size # ix[2] \div cell_size
                             /\ new[c] # old[c]
           /\ \E c \in Idx : c[2] = ix[2] /\ c[1] \div cell_size # ix[1] \div cell_size
                             /\ new[c] # old[c]
           /\ \E c \in Idx : c[1] # ix[1] /\ c[2] # ix[2] /\ new[c] # old[c]
           /\ \E c \in Idx : c # ix /\ ~ old[c].fixed /\ new[c] = old[c]


\* within one grid: a Fixed cell is as it was, and a cell that is still
\* Possible has no candidate it did not have
Monotone(old, new) ==
    \A c \in Idx :
        /\ old[c].fixed => new[c] = old[c]
        /\ (~ old[c].fixed /\ ~ new[c].fixed) => new[c].possible \subseteq old[c].possible

\* the grid a frame of the running strategy works on, in the state before
\* and in the state after the step
GridOf(i) == IF pc = "dfs" THEN stack[i].data ELSE heap[stack[i].ref]
GridAfter(i) == IF pc = "dfs" THEN stack'[i].data ELSE heap'[stack'[i].ref]

\* the frame works on the same grid after the step
SameGrid(i) == pc = "dfs" \/ stack'[i].ref = stack[i].ref

\* C11: in dfs and sorted_dfs a Fixed cell of a grid stays Fixed to its digit
\* and candidate sets only shrink; a grid with a branch in flight is not
\* touched, so when the branch has failed the grid is as it was before the
\* branch and the loop goes on with the next candidate of the same cell on it
C11_NoUndo ==
    [][ (pc \in {"dfs", "sorted"} /\ pc' = pc) =>
          /\ \A i \in DOMAIN stack \cap DOMAIN stack' :
                /\ SameGrid(i) => Monotone(GridOf(i), GridAfter(i))
                /\ stack[i].at = "call" =>
                      /\ GridAfter(i) = GridOf(i)
                      /\ stack'[i].ix = stack[i].ix
                      /\ ~ GridAfter(i)[stack[i].ix].fixed
                      /\ stack'[i].possible \subseteq GridAfter(i)[stack[i].ix].possible
          /\ (stack # <<>> /\ top.at = "call" /\ ret.kind = "Continue") =>
                /\ Len(stack') = Len(stack)
                /\ stack'[Len(stack)].at = "loop"
                /\ stack'[Len(stack)].possible = top.possible
      ]_vars

\* sorted_dfs_impl explores the branch of a further candidate of a cell after
\* the branch of another of its candidates has failed
C11_Witness ==
    /\ pc = "sorted" /\ Len(stack) >= 2
    /\ \E i \in DOMAIN stack :
          /\ stack[i].at = "call"
          /\ Cardinality(heap[stack[i].ref][stack[i].ix].possible \ stack[i].possible) >= 2

====
